---------------------------- MODULE Spec2Model ----------------------------
(***************************************************************************)
(* Model of tailcall's blueprint compiler:                                 *)
(*   src/src/try_fold.rs               TryFold, the accumulating fold      *)
(*   src/src/blueprint/from_config.rs  Config -> Blueprint translation     *)
(* Valid<A, E> (crate::valid) is the accumulating result type both files   *)
(* are written against.                                                    *)
(***************************************************************************)
EXTENDS Integers, Sequences, FiniteSets, TLC

VARIABLES
    steps,      \* try_fold.rs: the three closures t1, t2, t3 of a test
    input,      \* try_fold.rs: the `input` argument of try_fold
    state,      \* try_fold.rs: the `state` argument of try_fold
    comb,       \* try_fold.rs: which combinator was built and folded
    out,        \* try_fold.rs: [v |-> the Valid returned, log |-> the closure calls made]
    config,     \* from_config.rs: the Config being compiled
    call,       \* from_config.rs: the function entered and its arguments
    ret         \* from_config.rs: what the function returned

vars == <<steps, input, state, comb, out, config, call, ret>>

-----------------------------------------------------------------------------
\* Bounds of the model.

\* inputs are drawn from 1..MaxInput
MaxInput == 2
\* initial fold states are drawn from 0..MaxState
MaxState == 3
\* template expressions have up to MaxParts parts
MaxParts == 3
\* inline paths have up to MaxPathLen segments
MaxPathLen == 3

-----------------------------------------------------------------------------
\* Valid<A, E>: Ok(value) or Err(ordered list of causes {message, trace}).

None == [some |-> FALSE]

Some(x) == [some |-> TRUE, v |-> x]

Cause(msg) == [message |-> msg, trace |-> <<>>]

Valid_succeed(a) == [ok |-> TRUE, val |-> a, errs |-> <<>>]

Valid_errs(es) == [ok |-> FALSE, errs |-> es]

Valid_fail(e) == Valid_errs(<<Cause(e)>>)

\* both operands are values already; the errors of both are kept, left first
Valid_zip(a, b) ==
    IF a.ok /\ b.ok THEN Valid_succeed(<<a.val, b.val>>)
    ELSE Valid_errs(a.errs \o b.errs)

\* self.zip(other).map(|(_, a1)| a1)
Valid_and(a, b) ==
    IF a.ok /\ b.ok THEN b
    ELSE Valid_errs(a.errs \o b.errs)

\* and_then(f): next is f(a.val), read only when a is Ok
Valid_and_then(a, next) == IF a.ok THEN next ELSE a

\* map(f): mapped is f(a.val), read only when a is Ok
Valid_map(a, mapped) == IF a.ok THEN Valid_succeed(mapped) ELSE a

Valid_map_to(a, b) == Valid_map(a, b)

Valid_unit(a) == Valid_map(a, "unit")

\* trace(name) puts name in front of the trace of every cause
Valid_trace(a, name) ==
    IF a.ok THEN a
    ELSE Valid_errs([i \in 1..Len(a.errs) |->
            [message |-> a.errs[i].message, trace |-> <<name>> \o a.errs[i].trace]])

\* self.when(cond): the failure stands only when cond holds
Valid_when(a, cond) == IF cond THEN a ELSE Valid_succeed("unit")

Valid_from_option(o, e) == IF o.some THEN Valid_succeed(o.v) ELSE Valid_fail(e)

\* fold(ok, err): Ok(a) -> ok(a); Err(e) -> Err(e).and(err).  okres is ok(a.val),
\* read only when a is Ok
Valid_fold(a, okres, err) == IF a.ok THEN okres ELSE Valid_and(a, err)

RECURSIVE Valid_from_iter(_)
\* from_iter(items, f): rs is f on every item, in iteration order; every error
\* of every item is kept
Valid_from_iter(rs) ==
    IF rs = <<>> THEN Valid_succeed(<<>>)
    ELSE LET h == Head(rs)
             t == Valid_from_iter(Tail(rs))
         IN  IF h.ok /\ t.ok THEN Valid_succeed(<<h.val>> \o t.val)
             ELSE Valid_errs(h.errs \o t.errs)

-----------------------------------------------------------------------------
\* try_fold.rs

StepSet == [kind : {"succeed", "fail", "fail_odd"}, op : {"add", "mul", "mul100"}]

\* the arithmetic of the closures |a, b| a + b, a * b, a * b * 100
StepValue(op, a, b) ==
    CASE op = "add" -> a + b
      [] op = "mul" -> a * b
      [] op = "mul100" -> a * b * 100

\* a closure handed to TryFold::new: Valid::succeed(..) or Valid::fail(..) of
\* a value computed from (input, state); fail_odd decides by the state it sees
Closure(f, a, b) ==
    CASE f.kind = "succeed" -> Valid_succeed(StepValue(f.op, a, b))
      [] f.kind = "fail" -> Valid_fail(StepValue(f.op, a, b))
      [] f.kind = "fail_odd" ->
            IF b % 2 = 1 THEN Valid_fail(StepValue(f.op, a, b))
            ELSE Valid_succeed(StepValue(f.op, a, b))

\* TryFold::new(f); id names the closure in the call log
TryFold_new(id, f) == [k |-> "new", id |-> id, f |-> f]

TryFold_empty == [k |-> "empty"]

TryFold_and(self, other) == [k |-> "and", a |-> self, b |-> other]

RECURSIVE TryFold_from_iter_LeftAssoc(_)
\* a faulty variant of TryFold_from_iter: the list folded from the left, ((t1.and(t2)).and(t3))
TryFold_from_iter_LeftAssoc(items) ==
    IF items = <<>> THEN TryFold_empty
    ELSE IF Len(items) = 1 THEN items[1]
    ELSE TryFold_and(TryFold_from_iter_LeftAssoc(SubSeq(items, 1, Len(items) - 1)),
                     items[Len(items)])

RECURSIVE TryFold_from_iter(_)
\* head.and(TryFold::from_iter(iter)), TryFold::empty() for the empty list
TryFold_from_iter(items) ==
    IF items # <<>> THEN TryFold_and(Head(items), TryFold_from_iter(Tail(items)))
    ELSE TryFold_empty

RECURSIVE to_string(_)
\* i32::to_string: the decimal digits of a number that is not negative
to_string(n) == IF n < 10 THEN <<n>> ELSE to_string(n \div 10) \o <<n % 10>>

RECURSIVE parse(_)
\* str::parse::<i32>().unwrap() on a string of decimal digits
parse(str) ==
    IF Len(str) = 1 THEN str[1]
    ELSE parse(SubSeq(str, 1, Len(str) - 1)) * 10 + str[Len(str)]

\* the mappings up: State -> State1 given to transform, State1 being String
Up(up, o) == IF up = "to_string" THEN to_string(o) ELSE to_string(o + 1)

\* the mappings down: State1 -> State given to transform
Down(down, o1) == IF down = "parse" THEN parse(o1) ELSE parse(o1) \div 2

\* self.transform(up, down), which is self.transform_valid of
\* |o| Valid::succeed(up(o)) and |o1| Valid::succeed(down(o1))
TryFold_transform(self, up, down) ==
    [k |-> "transform_valid", of |-> self, up |-> up, down |-> down]

Call(id, st) == [id |-> id, state |-> st]

RECURSIVE try_fold(_, _, _)
RECURSIVE AndClosure(_, _, _, _)
RECURSIVE TransformClosure(_, _, _, _, _)

\* a faulty variant of TransformClosure: up is applied to the state handed to self
TransformClosure_UpBefore(self, up, down, in, o1) ==
    LET folded == try_fold(self, in, Down(down, o1))
    IN  [v |-> Valid_map(folded.v, Up(up, Down(down, o1))), log |-> folded.log]

\* the closure boxed by transform_valid, line 81:
\* down(o1).and_then(|o| self.try_fold(input, o)).and_then(|o| up(o))
TransformClosure(self, up, down, in, o1) ==
    LET folded == try_fold(self, in, Down(down, o1))
    IN  [v |-> Valid_and_then(
                  Valid_and_then(Valid_succeed(Down(down, o1)), folded.v),
                  Valid_succeed(Up(up, folded.v.val))),
         log |-> folded.log]

\* a faulty variant of AndClosure: a failure of self ends the fold (short circuit)
AndClosure_ShortCircuit(self, other, in, st) ==
    LET first == try_fold(self, in, st)
        second == try_fold(other, in, first.v.val)
    IN  IF first.v.ok
        THEN [v |-> second.v, log |-> first.log \o second.log]
        ELSE [v |-> first.v, log |-> first.log]

\* a faulty variant of AndClosure: the errors of other are put before those of self
AndClosure_ErrFirst(self, other, in, st) ==
    LET first == try_fold(self, in, st)
        err == try_fold(other, in, st)
        second == try_fold(other, in, first.v.val)
    IN  [v |-> IF first.v.ok THEN second.v ELSE Valid_and(err.v, first.v),
         log |-> first.log \o err.log \o (IF first.v.ok THEN second.log ELSE <<>>)]

\* the closure boxed by `and`, lines 34-38: self is folded first, then the
\* argument other.try_fold(input, state) is evaluated, then fold runs the Ok
\* branch other.try_fold(input, value) when self succeeded
AndClosure(self, other, in, st) ==
    LET first == try_fold(self, in, st)
        err == try_fold(other, in, st)
        second == try_fold(other, in, first.v.val)
    IN  [v |-> Valid_fold(first.v, second.v, err.v),
         log |-> first.log \o err.log \o (IF first.v.ok THEN second.log ELSE <<>>)]

\* (self.0)(input, state), with the calls of the leaf closures it makes
try_fold(self, in, st) ==
    CASE self.k = "new" ->
            [v |-> Closure(self.f, in, st), log |-> <<Call(self.id, st)>>]
      [] self.k = "empty" ->
            [v |-> Valid_succeed(st), log |-> <<>>]
      [] self.k = "and" -> AndClosure(self.a, self.b, in, st)
      [] self.k = "transform_valid" ->
            TransformClosure(self.of, self.up, self.down, in, st)

T(i) == TryFold_new(i, steps[i])

NoOut == [v |-> Valid_succeed(0), log |-> <<>>]

InitFold ==
    /\ steps \in [1..3 -> StepSet]
    /\ input \in 1..MaxInput
    /\ state \in 0..MaxState
    /\ comb = "none"
    /\ out = NoOut
    /\ config = "none"
    /\ call = [fn |-> "none"]
    /\ ret = "none"

Fold(name, c) ==
    /\ comb = "none"
    /\ comb' = name
    /\ out' = try_fold(c, input, state)
    /\ UNCHANGED <<steps, input, state, config, call, ret>>

\* t1.and(t2)
FoldAnd == Fold("and", TryFold_and(T(1), T(2)))

\* TryFold::from_iter(vec![t1, t2, t3])
FoldFromIter == Fold("from_iter", TryFold_from_iter(<<T(1), T(2), T(3)>>))

\* t1.and(t2).and(t3)
FoldLeft == Fold("left", TryFold_and(TryFold_and(T(1), T(2)), T(3)))

\* t1.and(t2.and(t3))
FoldRight == Fold("right", TryFold_and(T(1), TryFold_and(T(2), T(3))))

\* f.transform(up, down).try_fold(&input, s1) for a leaf, a pair and a list f,
\* on the string of `state` as it is printed or with a leading zero
FoldTransform ==
    /\ comb = "none"
    /\ \E f \in {T(1), TryFold_and(T(1), T(2)), TryFold_from_iter(<<T(1), T(2), T(3)>>)},
          up \in {"to_string", "succ"}, down \in {"parse", "half"},
          s1 \in {to_string(state), <<0>> \o to_string(state)} :
          /\ comb' = "transform"
          /\ call' = [fn |-> "transform", of |-> f, up |-> up, down |-> down, s1 |-> s1]
          /\ out' = try_fold(TryFold_transform(f, up, down), input, s1)
          /\ UNCHANGED <<steps, input, state, config, ret>>

NextFold == FoldAnd \/ FoldFromIter \/ FoldLeft \/ FoldRight \/ FoldTransform

SpecFold == InitFold /\ [][NextFold]_vars


-----------------------------------------------------------------------------
\* from_config.rs: the Config (crate::config) and the Blueprint types.
\*
\* A BTreeMap<String, X> is a sequence of [name |-> .., v |-> ..] in key order.

Names(m) == {m[i].name : i \in 1..Len(m)}

Has(m, name) == name \in Names(m)

\* the value under a key that is present
At(m, name) == m[CHOOSE i \in 1..Len(m) : m[i].name = name].v

\* Config::find_type
find_type(cfg, name) == IF Has(cfg.types, name) THEN Some(At(cfg.types, name)) ELSE None

\* Config::contains: a declared type or a declared union
contains(cfg, name) == Has(cfg.types, name) \/ Has(cfg.unions, name)

\* Field::has_resolver
has_resolver(field) ==
    field.http.some \/ field.unsafe_operation.some \/ field.const_field.some

\* Field::resolvable_directives: the identifiers of the resolution directives
\* the field carries
resolvable_directives(field) ==
    (IF field.http.some THEN <<"@http">> ELSE <<>>)
    \o (IF field.unsafe_operation.some THEN <<"@unsafe">> ELSE <<>>)
    \o (IF field.const_field.some THEN <<"@const">> ELSE <<>>)
    \o (IF field.inline.some THEN <<"@inline">> ELSE <<>>)

is_scalar(type_name) == type_name \in {"String", "Int", "Float", "Boolean", "ID", "JSON"}

NamedType(name, non_null) == [k |-> "NamedType", name |-> name, non_null |-> non_null]

ListType(of_type, non_null) == [k |-> "ListType", of_type |-> of_type, non_null |-> non_null]

to_type(name, list, non_null, list_type_required) ==
    IF list THEN ListType(NamedType(name, list_type_required), non_null)
    ELSE NamedType(name, non_null)

RECURSIVE Type_name(_)
\* Type::name: the name of the innermost named type
Type_name(t) == IF t.k = "ListType" THEN Type_name(t.of_type) ELSE t.name

\* Type::is_nullable: of the outermost level
Type_is_nullable(t) == ~t.non_null

-----------------------------------------------------------------------------
\* JSON schema inference, lines 695-740.

\* to_json_schema recurses through the type graph; a recursion deeper than
\* MaxDepth is cut and reported as Overflow
MaxDepth == 4

Overflow == [k |-> "Overflow"]

JObj(fields) == [k |-> "Obj", fields |-> fields]
JArr(of) == [k |-> "Arr", of |-> of]
JOpt(of) == [k |-> "Opt", of |-> of]

\* lines 729-739
WrapSchema(schema, required, list) ==
    IF ~required
    THEN IF list THEN JOpt(JArr(schema)) ELSE JOpt(schema)
    ELSE IF list THEN JArr(schema) ELSE schema

\* line 714: the fields of a type that go into its object schema
SchemaMember(field) == ~field.unsafe_operation.some /\ ~field.http.some

RECURSIVE to_json_schema_depth(_, _, _, _, _)
to_json_schema_depth(type_of, required, list, cfg, depth) ==
    LET type_ == find_type(cfg, type_of)
        members == {i \in 1..Len(type_.v.fields) : SchemaMember(type_.v.fields[i].v)}
        schema ==
            IF type_.some
            THEN IF depth = 0 THEN Overflow
                 ELSE JObj([n \in {type_.v.fields[i].name : i \in members} |->
                        LET field == At(type_.v.fields, n)
                        IN  to_json_schema_depth(field.type_of, field.required,
                                                 field.list, cfg, depth - 1)])
            ELSE CASE type_of = "String" -> [k |-> "Str"]
                   [] type_of = "Int" -> [k |-> "Num"]
                   [] type_of = "Boolean" -> [k |-> "Bool"]
                   [] type_of = "JSON" -> JObj(<<>>)
                   [] OTHER -> [k |-> "Str"]
    IN  WrapSchema(schema, required, list)

to_json_schema(type_of, required, list, cfg) ==
    to_json_schema_depth(type_of, required, list, cfg, MaxDepth)

to_json_schema_for_field(field, cfg) ==
    to_json_schema(field.type_of, field.required, field.list, cfg)

to_json_schema_for_args(args, cfg) ==
    JObj([n \in Names(args) |->
        LET arg == At(args, n)
        IN  to_json_schema(arg.type_of, arg.required, arg.list, cfg)])

\* JSON data: [t |-> "null"], "str", "num", "bool", [t |-> "obj", m |-> name -> data],
\* [t |-> "arr", items |-> <<data>>]; [t |-> "invalid"] is data that
\* ConstValue::from_json rejects
RECURSIVE JsonSchema_validate(_, _)
\* JsonSchema::validate: whether the value has the shape of the schema
JsonSchema_validate(schema, value) ==
    CASE schema.k = "Str" -> value.t = "str"
      [] schema.k = "Num" -> value.t = "num"
      [] schema.k = "Bool" -> value.t = "bool"
      [] schema.k = "Opt" -> value.t = "null" \/ JsonSchema_validate(schema.of, value)
      [] schema.k = "Arr" ->
            /\ value.t = "arr"
            /\ \A i \in 1..Len(value.items) : JsonSchema_validate(schema.of, value.items[i])
      [] schema.k = "Obj" ->
            /\ value.t = "obj"
            /\ \A n \in DOMAIN schema.fields :
                  IF n \in DOMAIN value.m
                  THEN JsonSchema_validate(schema.fields[n], value.m[n])
                  ELSE schema.fields[n].k = "Opt"
      [] OTHER -> FALSE

-----------------------------------------------------------------------------
\* Templates (Mustache): a sequence of segments, [lit |-> text] or
\* [expr |-> <<part, ..>>].

Lit(text) == [k |-> "lit", lit |-> text]

Expr(parts) == [k |-> "expr", expr |-> parts]

\* the elements of seq at the indices idx, in order
AtIndices(seq, idx) ==
    LET Nth[n \in 0..Cardinality(idx)] ==
            IF n = 0 THEN 0
            ELSE CHOOSE i \in idx :
                    /\ i > Nth[n - 1]
                    /\ \A j \in idx : j > Nth[n - 1] => i <= j
    IN  [n \in 1..Cardinality(idx) |-> seq[Nth[n]]]

\* Mustache::expression_segments: the parts of the expressions, in order
expression_segments(m) ==
    LET exprs == AtIndices(m, {i \in 1..Len(m) : m[i].k = "expr"})
    IN  [n \in 1..Len(exprs) |-> exprs[n].expr]

\* lines 684-694
to_args(field) ==
    Valid_from_iter([i \in 1..Len(field.args) |->
        LET arg == field.args[i].v
        IN  Valid_succeed([name |-> field.args[i].name,
                           of_type |-> to_type(arg.type_of, arg.list, arg.required, FALSE),
                           default_value |-> arg.default_value])])

\* lines 396-403
validate_field_type_exist(cfg, field) ==
    IF ~is_scalar(field.type_of) /\ ~contains(cfg, field.type_of)
    THEN Valid_fail(<<"Undeclared type was found", field.type_of>>)
    ELSE Valid_succeed("unit")

\* lines 219-230
get_value_type(type_of, value) ==
    IF Has(type_of.fields, value)
    THEN LET field == At(type_of.fields, value)
         IN  Some(to_type(field.type_of, field.list, field.required, field.list_type_required))
    ELSE None

\* a faulty variant of validate_mustache_parts: a nullable value is let through outside
\* query position too, and a list-typed argument is accepted
validate_mustache_parts_Lax(type_of, cfg, is_query, parts, args) ==
    IF Len(parts) < 2 THEN Valid_fail(<<"too few parts in template">>)
    ELSE LET head == parts[1]
             tail == parts[2]
         IN  CASE head = "value" ->
                    LET val_type == get_value_type(type_of, tail)
                    IN  IF val_type.some
                        THEN IF ~is_scalar(Type_name(val_type.v))
                             THEN Valid_fail(<<"value is not of a scalar type", tail>>)
                             ELSE Valid_succeed("unit")
                        ELSE Valid_fail(<<"no value found", tail>>)
               [] head = "args" ->
                    IF \E i \in 1..Len(args) : args[i].name = tail
                    THEN Valid_succeed("unit")
                    ELSE Valid_fail(<<"no argument found", tail>>)
               [] head = "vars" ->
                    IF tail \notin cfg.server.vars
                    THEN Valid_fail(<<"var is not set in the server config", tail>>)
                    ELSE Valid_succeed("unit")
               [] head = "headers" -> Valid_succeed("unit")
               [] OTHER -> Valid_fail(<<"unknown template directive", head>>)

\* lines 232-294
validate_mustache_parts(type_of, cfg, is_query, parts, args) ==
    IF Len(parts) < 2 THEN Valid_fail(<<"too few parts in template">>)
    ELSE LET head == parts[1]
             tail == parts[2]
         IN  CASE head = "value" ->
                    LET val_type == get_value_type(type_of, tail)
                    IN  IF val_type.some
                        THEN IF ~is_scalar(Type_name(val_type.v))
                             THEN Valid_fail(<<"value is not of a scalar type", tail>>)
                             ELSE IF ~is_query /\ Type_is_nullable(val_type.v)
                             THEN Valid_fail(<<"value is a nullable type", tail>>)
                             ELSE Valid_succeed("unit")
                        ELSE Valid_fail(<<"no value found", tail>>)
               [] head = "args" ->
                    IF \E i \in 1..Len(args) : args[i].name = tail
                    THEN LET arg == args[CHOOSE i \in 1..Len(args) :
                                        /\ args[i].name = tail
                                        /\ \A j \in 1..(i - 1) : args[j].name # tail]
                         IN  IF arg.of_type.k = "ListType"
                             THEN Valid_fail(<<"can't use list type here", tail>>)
                             ELSE IF ~is_query /\ ~arg.default_value.some
                                     /\ Type_is_nullable(arg.of_type)
                             THEN Valid_fail(<<"argument is a nullable type", tail>>)
                             ELSE Valid_succeed("unit")
                    ELSE Valid_fail(<<"no argument found", tail>>)
               [] head = "vars" ->
                    IF tail \notin cfg.server.vars
                    THEN Valid_fail(<<"var is not set in the server config", tail>>)
                    ELSE Valid_succeed("unit")
               [] head = "headers" -> Valid_succeed("unit")
               [] OTHER -> Valid_fail(<<"unknown template directive", head>>)

\* Expression::Unsafe(Operation::Endpoint(req_template, group_by, dataloader))
Endpoint(req_template, group_by, dl) ==
    [k |-> "Endpoint", req_template |-> req_template, group_by |-> group_by, dl |-> dl]

\* lines 296-318
validate_field(type_of, cfg, field) ==
    IF field.resolver.some /\ field.resolver.v.k = "Endpoint"
    THEN LET req_template == field.resolver.v.req_template
             path == expression_segments(req_template.root_url)
         IN  Valid_unit(Valid_and(
                Valid_from_iter([i \in 1..Len(path) |->
                    Valid_trace(validate_mustache_parts(type_of, cfg, FALSE, path[i], field.args),
                                "path")]),
                Valid_from_iter([q \in 1..Len(req_template.query) |->
                    LET segs == expression_segments(req_template.query[q].v)
                    IN  Valid_from_iter([i \in 1..Len(segs) |->
                            Valid_trace(validate_mustache_parts(type_of, cfg, TRUE, segs[i],
                                                                field.args),
                                        "query")])])))
    ELSE Valid_succeed("unit")

-----------------------------------------------------------------------------
\* The field pipeline, lines 320-530 and 654-683.

\* resolver expressions (crate::lambda)
Context == [k |-> "Context"]
Js(of, script) == [k |-> "Js", of |-> of, script |-> script]
Literal(data) == [k |-> "Literal", data |-> data]
ContextField(name) == [k |-> "ContextField", name |-> name]
ContextPath(path) == [k |-> "ContextPath", path |-> path]
InputPath(of, path) == [k |-> "InputPath", of |-> of, path |-> path]

\* FieldDefinition::resolver_or_default(default, other): other is the
\* expression other(resolver) gives, read only when a resolver is set
resolver_or_default(b_field, default, other) ==
    [b_field EXCEPT !.resolver = IF b_field.resolver.some THEN Some(other) ELSE Some(default)]

\* hyper's HeaderName::from_bytes and HeaderValue::from_str reject these
InvalidHeaderNames == {"bad name"}
InvalidHeaderValues == {"bad value"}

\* RequestTemplate::try_from(Endpoint)
RequestTemplate_try_from(root_url, method, query, body, headers) ==
    Valid_succeed([root_url |-> root_url, method |-> method, query |-> query,
                   body |-> body, headers |-> headers])

\* lines 438-445: every header parsed, every parse error kept
HeaderResults(http) ==
    Valid_from_iter([i \in 1..Len(http.headers) |->
        LET name == IF http.headers[i].name \in InvalidHeaderNames
                    THEN Valid_fail(<<"invalid HTTP header name">>)
                    ELSE Valid_succeed(http.headers[i].name)
            value == IF http.headers[i].v \in InvalidHeaderValues
                     THEN Valid_fail(<<"failed to parse header value">>)
                     ELSE Valid_succeed(http.headers[i].v)
        IN  Valid_zip(name, value)])

\* a faulty variant of GroupByCheck: the group-by rule is not enforced
GroupByCheck_Off(http) == Valid_succeed("unit")

\* lines 436-437
GroupByCheck(http) ==
    Valid_when(Valid_fail(<<"GroupBy is only supported for GET requests">>),
               http.group_by # <<>> /\ http.method # "GET")

\* lines 461-469
HttpResolver(http, req_template) ==
    IF http.group_by # <<>> /\ http.method = "GET"
    THEN Endpoint(req_template, Some(http.group_by), None)
    ELSE Endpoint(req_template, None, None)

\* lines 414-477
update_http(field, b_field, type_of, cfg) ==
    IF field.http.some
    THEN LET http == field.http.v
             base_url == IF http.base_url.some THEN http.base_url ELSE cfg.upstream.base_url
         IN  IF base_url.some
             THEN LET root_url == base_url.v \o http.path
                      checked == Valid_and(GroupByCheck(http), HeaderResults(http))
                      header_map == Valid_map(checked, checked.val)
                      req == Valid_and_then(header_map,
                                RequestTemplate_try_from(root_url, http.method, http.query,
                                                         http.body, header_map.val))
                      bound == Valid_map(req,
                                [b_field EXCEPT !.resolver = Some(HttpResolver(http, req.val))])
                  IN  Valid_and_then(bound,
                        Valid_map_to(validate_field(type_of, cfg, bound.val), bound.val))
             ELSE Valid_fail(<<"No base URL defined">>)
    ELSE Valid_succeed(b_field)

\* lines 405-412
update_unsafe(field, b_field) ==
    IF field.unsafe_operation.some
    THEN resolver_or_default(b_field, Js(Context, field.unsafe_operation.v.script),
                             Js(b_field.resolver.v, field.unsafe_operation.v.script))
    ELSE b_field

\* lines 509-530
update_const_field(field, b_field, cfg) ==
    IF field.const_field.some
    THEN LET data == field.const_field.v.data
         IN  IF data.t # "invalid"
             THEN IF JsonSchema_validate(to_json_schema_for_field(field, cfg), data)
                  THEN Valid_succeed([b_field EXCEPT !.resolver = Some(Literal(data))])
                  ELSE Valid_fail(<<"const data does not match the schema">>)
             ELSE Valid_fail(<<"invalid JSON">>)
    ELSE Valid_succeed(b_field)

\* str::parse::<usize> accepts digits with an optional leading +
UsizeSegments == {"0", "1", "+1"}

\* the regex ^\d+$ of line 665
DigitSegments == {"0", "1"}

\* lines 661-663
handle_invalid_path(field_name, inlined_path) ==
    Valid_fail(<<"Inline can't be done because provided path doesn't exist">>)

\* lines 598-600: the directive named in the error
ResolverKind(next_field) ==
    IF next_field.http.some THEN "http"
    ELSE IF next_field.const_field.some THEN "const"
    ELSE "unsafe"

RECURSIVE process_path(_, _, _, _, _)
RECURSIVE process_field_within_type(_, _, _, _, _, _)

\* lines 535-582
process_path(path, field, type_info, is_required, cfg) ==
    IF path # <<>>
    THEN LET field_name == Head(path)
             remaining_path == Tail(path)
         IN  IF field_name \in UsizeSegments
             THEN process_path(remaining_path, [field EXCEPT !.list = FALSE], type_info,
                               FALSE, cfg)
             ELSE LET target_type_info ==
                          IF Has(type_info.fields, field_name) THEN Some(type_info)
                          ELSE find_type(cfg, field.type_of)
                  IN  IF target_type_info.some
                      THEN process_field_within_type(field, field_name, remaining_path,
                                                     target_type_info.v, is_required, cfg)
                      ELSE handle_invalid_path(field_name, path)
    ELSE Valid_succeed(to_type(field.type_of, field.list, is_required,
                               field.list_type_required))

\* lines 584-651
process_field_within_type(field, field_name, remaining_path, type_info, is_required, cfg) ==
    LET next_field == At(type_info.fields, field_name)
        next_is_required == is_required /\ next_field.required
        next_type_info == find_type(cfg, next_field.type_of)
        rest == process_path(remaining_path, next_field, next_type_info.v,
                             next_is_required, cfg)
    IN  IF Has(type_info.fields, field_name)
        THEN IF has_resolver(next_field)
             THEN Valid_and(
                    Valid_fail(<<"Inline can't be done because of resolver at",
                                 ResolverKind(next_field), field.type_of, field_name>>),
                    process_path(remaining_path, next_field, type_info, is_required, cfg))
             ELSE IF is_scalar(next_field.type_of)
             THEN process_path(remaining_path, next_field, type_info, next_is_required, cfg)
             ELSE IF next_type_info.some
             THEN Valid_and_then(rest,
                    IF next_field.list
                    THEN Valid_succeed(ListType(rest.val, is_required))
                    ELSE Valid_succeed(rest.val))
             ELSE handle_invalid_path(field_name, remaining_path)
        ELSE IF remaining_path # <<>> /\ Has(type_info.fields, Head(remaining_path))
             THEN process_path(Tail(remaining_path),
                               At(type_info.fields, Head(remaining_path)),
                               type_info, is_required, cfg)
             ELSE handle_invalid_path(field_name, remaining_path)

\* lines 654-683
update_inline_field(type_info, field, base_field, cfg) ==
    LET inlined_path == IF field.inline.some THEN field.inline.v.path ELSE <<>>
        has_index == \E i \in 1..Len(inlined_path) : inlined_path[i] \in DigitSegments
        resolved == process_path(inlined_path, field, type_info, FALSE, cfg)
        retyped == [base_field EXCEPT !.of_type =
                        IF has_index THEN NamedType(Type_name(resolved.val), FALSE)
                        ELSE resolved.val]
    IN  IF field.inline.some
        THEN Valid_and_then(resolved,
                Valid_succeed(resolver_or_default(retyped, ContextPath(inlined_path),
                                  InputPath(retyped.resolver.v, inlined_path))))
        ELSE Valid_succeed(base_field)

\* lines 478-508
update_modify(field, b_field, type_, cfg) ==
    IF field.modify.some
    THEN LET modify == field.modify.v
         IN  IF modify.omit THEN Valid_succeed(None)
             ELSE IF modify.name.some
             THEN IF \E name \in type_.implements :
                        /\ find_type(cfg, name).some
                        /\ Has(find_type(cfg, name).v.fields, modify.name.v)
                  THEN Valid_fail(<<"Field is already implemented from interface">>)
                  ELSE Valid_succeed(Some(
                        [resolver_or_default(b_field, ContextField(b_field.name),
                                             b_field.resolver.v)
                            EXCEPT !.name = modify.name.v]))
             ELSE Valid_succeed(Some(b_field))
    ELSE Valid_succeed(Some(b_field))

\* lines 333-340: the field definition before any binding
NewFieldDefinition(name, field, args) ==
    [name |-> name, args |-> args,
     of_type |-> to_type(field.type_of, field.list, field.required,
                         field.list_type_required),
     resolver |-> None]

\* line 344: .map(|field_definition| update_unsafe(field.clone(), field_definition))
MapUnsafe(field, http) == Valid_map(http, update_unsafe(field, http.val))

\* line 345: .and_then(|field_definition| update_const_field(..).trace("@const"))
ThenConst(field, cfg, unsafe) ==
    Valid_and_then(unsafe,
        Valid_trace(update_const_field(field, unsafe.val, cfg), "@const"))

\* line 346: .and_then(|field_definition| update_inline_field(..).trace("@inline"))
ThenInline(type_of, field, cfg, const) ==
    Valid_and_then(const,
        Valid_trace(update_inline_field(type_of, field, const.val, cfg), "@inline"))

\* line 347: .and_then(|field_definition| update_modify(..).trace("@modify"))
ThenModify(type_of, field, cfg, inline) ==
    Valid_and_then(inline,
        Valid_trace(update_modify(field, inline.val, type_of, cfg), "@modify"))

\* lines 332-347: the closure run on the arguments, the binding steps in order
WithArgs(type_of, cfg, name, field, args) ==
    Valid_and_then(args,
        ThenModify(type_of, field, cfg,
            ThenInline(type_of, field, cfg,
                ThenConst(field, cfg,
                    MapUnsafe(field,
                        Valid_trace(update_http(field,
                                                NewFieldDefinition(name, field, args.val),
                                                type_of, cfg),
                                    "@http"))))))

\* lines 331-348: to_args(field).and_then(..)
BindField(type_of, cfg, name, field) == WithArgs(type_of, cfg, name, field, to_args(field))

\* a faulty variant of to_field: fields with several resolvers go on to the binding steps
to_field_NoConflictCheck(type_of, cfg, name, field) == BindField(type_of, cfg, name, field)

\* lines 320-349
to_field(type_of, cfg, name, field) ==
    LET directives == resolvable_directives(field)
    IN  IF Len(directives) > 1
        THEN Valid_fail(<<"Multiple resolvers detected", directives>>)
        ELSE BindField(type_of, cfg, name, field)

IsSome(o) == o.some

\* line 216: .map(|fields| fields.into_iter().flatten().collect())
Flattened(fields) ==
    LET kept == SelectSeq(fields.val, IsSome)
    IN  Valid_map(fields, [i \in 1..Len(kept) |-> kept[i].v])

\* lines 210-217
to_fields(type_of, cfg) ==
    Flattened(Valid_from_iter([i \in 1..Len(type_of.fields) |->
                Valid_trace(
                    Valid_and(validate_field_type_exist(cfg, type_of.fields[i].v),
                              to_field(type_of, cfg, type_of.fields[i].name,
                                       type_of.fields[i].v)),
                    type_of.fields[i].name)]))

-----------------------------------------------------------------------------
\* Definitions and the blueprint, lines 28-217 and 362-394.

RECURSIVE TypeClosure(_, _)
\* the names reached from `names` through the fields of the configured types
TypeClosure(cfg, names) ==
    LET next == names \cup
                UNION {{At(cfg.types, n).fields[f].v.type_of :
                            f \in 1..Len(At(cfg.types, n).fields)} :
                       n \in names \cap Names(cfg.types)}
    IN  IF next = names THEN names ELSE TypeClosure(cfg, next)

\* Config::input_types: the closure of the argument types
input_types(cfg) ==
    TypeClosure(cfg,
        UNION {UNION {{cfg.types[t].v.fields[f].v.args[a].v.type_of :
                            a \in 1..Len(cfg.types[t].v.fields[f].v.args)} :
                        f \in 1..Len(cfg.types[t].v.fields)} :
               t \in 1..Len(cfg.types)})

\* Config::output_types: the closure of the root types
output_types(cfg) ==
    TypeClosure(cfg,
        (IF cfg.schema.query.some THEN {cfg.schema.query.v} ELSE {})
        \cup (IF cfg.schema.mutation.some THEN {cfg.schema.mutation.v} ELSE {}))

\* lines 145-151
to_scalar_type_definition(name) ==
    Valid_succeed([k |-> "ScalarTypeDefinition", name |-> name])

\* lines 152-159
to_union_type_definition(name, u) ==
    [k |-> "UnionTypeDefinition", name |-> name, types |-> u.types]

\* lines 160-176
to_enum_type_definition(name, type_, cfg, variants) ==
    Valid_succeed([k |-> "EnumTypeDefinition", name |-> name, enum_values |-> variants])

\* lines 178-185: the closure run on the fields
ObjectOf(name, type_of, fields) ==
    Valid_map(fields,
        [k |-> "ObjectTypeDefinition", name |-> name, fields |-> fields.val,
         implements |-> type_of.implements])

\* lines 177-186
to_object_type_definition(name, type_of, cfg) ==
    ObjectOf(name, type_of, to_fields(type_of, cfg))

\* lines 187-202: an input field keeps name and type, not the resolver
to_input_object_type_definition(definition) ==
    Valid_succeed(
        [k |-> "InputObjectTypeDefinition", name |-> definition.name,
         fields |-> [i \in 1..Len(definition.fields) |->
                        [name |-> definition.fields[i].name,
                         default_value |-> None,
                         of_type |-> definition.fields[i].of_type]]])

\* lines 203-209
to_interface_type_definition(definition) ==
    Valid_succeed(
        [k |-> "InterfaceTypeDefinition", name |-> definition.name,
         fields |-> definition.fields])

\* lines 119-130: the closure run on the object definition of a type
DirectionOf(cfg, name, type_, object) ==
    Valid_and_then(object,
        IF name \in input_types(cfg)
        THEN Valid_trace(to_input_object_type_definition(object.val), name)
        ELSE IF type_.interface
        THEN Valid_trace(to_interface_type_definition(object.val), name)
        ELSE Valid_succeed(object.val))

\* a faulty variant of ToDefinition: a type used in input and in output is translated
\* like any other
ToDefinition_NoDblUsage(cfg, name, type_, outs, ins) ==
    IF type_.variants.some
    THEN IF type_.variants.v # {}
         THEN Valid_trace(to_enum_type_definition(name, type_, cfg, type_.variants.v), name)
         ELSE Valid_fail(<<"No variants found for enum">>)
    ELSE IF type_.scalar
    THEN Valid_trace(to_scalar_type_definition(name), name)
    ELSE DirectionOf(cfg, name, type_,
                         Valid_trace(to_object_type_definition(name, type_, cfg), name))

\* lines 104-132: the closure to_definitions runs on every configured type
ToDefinition(cfg, name, type_, outs, ins) ==
    LET dbl_usage == name \in ins /\ name \in outs
    IN  IF type_.variants.some
        THEN IF type_.variants.v # {}
             THEN Valid_trace(to_enum_type_definition(name, type_, cfg, type_.variants.v), name)
             ELSE Valid_fail(<<"No variants found for enum">>)
        ELSE IF type_.scalar
        THEN Valid_trace(to_scalar_type_definition(name), name)
        ELSE IF dbl_usage
        THEN Valid_trace(Valid_fail(<<"type is used in input and output">>), name)
        ELSE DirectionOf(cfg, name, type_,
                             Valid_trace(to_object_type_definition(name, type_, cfg), name))

\* lines 133-143: the closure that appends the union definitions
WithUnions(cfg, types) ==
    Valid_map(types,
        types.val \o [i \in 1..Len(cfg.unions) |->
                        to_union_type_definition(cfg.unions[i].name, cfg.unions[i].v)])

\* lines 99-144
to_definitions(cfg, outs, ins) ==
    WithUnions(cfg, Valid_from_iter([i \in 1..Len(cfg.types) |->
                        ToDefinition(cfg, cfg.types[i].name, cfg.types[i].v, outs, ins)]))

\* lines 390-394
validate_field_has_resolver(name, field) ==
    Valid_trace(
        Valid_when(Valid_fail(<<"No resolver has been found in the schema">>),
                   ~has_resolver(field)),
        name)

\* the fields of a root type, each checked for a resolver
RootFieldsResolved(type_) ==
    Valid_from_iter([i \in 1..Len(type_.fields) |->
        validate_field_has_resolver(type_.fields[i].name, type_.fields[i].v)])

\* lines 362-372
validate_query(cfg) ==
    LET root == Valid_from_option(cfg.schema.query, <<"Query root is missing">>)
        query == find_type(cfg, root.val)
    IN  Valid_unit(Valid_and_then(root,
            IF ~query.some
            THEN Valid_trace(Valid_fail(<<"Query type is not defined">>), root.val)
            ELSE Valid_trace(RootFieldsResolved(query.v), root.val)))

\* lines 374-388
validate_mutation(cfg) ==
    IF cfg.schema.mutation.some
    THEN LET mutation == find_type(cfg, cfg.schema.mutation.v)
         IN  IF ~mutation.some
             THEN Valid_trace(Valid_fail(<<"Mutation type is not defined">>),
                              cfg.schema.mutation.v)
             ELSE Valid_unit(Valid_trace(RootFieldsResolved(mutation.v),
                                         cfg.schema.mutation.v))
    ELSE Valid_succeed("unit")

\* lines 67-82, on the server directive
to_directive(cfg) == Valid_succeed([name |-> "server", index |-> 0])

\* lines 92-96: the closure that builds the SchemaDefinition
SchemaOf(cfg, zipped) ==
    Valid_map(zipped,
        [query |-> zipped.val[1], mutation |-> cfg.schema.mutation,
         directives |-> <<zipped.val[2]>>])

\* lines 84-97
to_schema(cfg) ==
    SchemaOf(cfg,
        Valid_zip(
            Valid_and(Valid_and(validate_query(cfg), validate_mutation(cfg)),
                      Valid_from_option(cfg.schema.query, <<"Query root is missing">>)),
            to_directive(cfg)))

\* reqwest::Url::parse rejects these base URLs
InvalidUrls == {<<Lit("not a url")>>}

\* lines 45-51
to_upstream(upstream) ==
    IF upstream.base_url.some
    THEN IF upstream.base_url.v \in InvalidUrls
         THEN Valid_fail(<<"relative URL without a base">>)
         ELSE Valid_succeed(upstream)
    ELSE Valid_succeed(upstream)

\* Server::try_from(config.server)
Server_try_from(server) == Valid_succeed(server)

\* Batch::default()
BatchDefault == [default |-> TRUE]

\* line 57: the resolver is an endpoint that carries a group-by
IsGroupByEndpoint(resolver) ==
    /\ resolver.some
    /\ resolver.v.k = "Endpoint"
    /\ resolver.v.group_by.some

\* a faulty variant of BatchedDefinitions: interface definitions are scanned as well
BatchedDefinitions_WithInterfaces(blueprint) ==
    {i \in 1..Len(blueprint.definitions) :
        blueprint.definitions[i].k \in {"ObjectTypeDefinition", "InterfaceTypeDefinition"}}

\* lines 54-55: the definitions apply_batching scans
BatchedDefinitions(blueprint) ==
    {i \in 1..Len(blueprint.definitions) :
        blueprint.definitions[i].k = "ObjectTypeDefinition"}

\* lines 53-65
apply_batching(blueprint) ==
    IF \E d \in BatchedDefinitions(blueprint) :
          \E f \in 1..Len(blueprint.definitions[d].fields) :
              IsGroupByEndpoint(blueprint.definitions[d].fields[f].resolver)
    THEN [blueprint EXCEPT !.upstream.batch =
                IF blueprint.upstream.batch.some THEN blueprint.upstream.batch
                ELSE Some(BatchDefault)]
    ELSE blueprint

\* super::compress::compress: a definition that repeats an earlier one is dropped
compress(blueprint) ==
    LET defs == blueprint.definitions
        first == {i \in 1..Len(defs) :
                    ~\E j \in 1..(i - 1) :
                        /\ defs[j].k = defs[i].k
                        /\ defs[j].name = defs[i].name
                        /\ defs[j] = defs[i]}
    IN  [blueprint EXCEPT !.definitions = AtIndices(defs, first)]

\* lines 40-42: the Blueprint of the four parts, batched and compressed
Assembled(zipped) ==
    Valid_map(zipped,
        compress(apply_batching(
            [schema |-> zipped.val[1][1][1], definitions |-> zipped.val[1][1][2],
             server |-> zipped.val[1][2], upstream |-> zipped.val[2]])))

\* lines 28-43
config_blueprint(cfg) ==
    LET output_types_ == output_types(cfg)
        input_types_ == input_types(cfg)
        schema == to_schema(cfg)
        definitions == to_definitions(cfg, output_types_, input_types_)
        server == Server_try_from(cfg.server)
        upstream == to_upstream(cfg.upstream)
    IN  Assembled(Valid_zip(Valid_zip(Valid_zip(schema, definitions), server), upstream))

-----------------------------------------------------------------------------
\* Configs (crate::config) the functions are run on.

Entry(name, v) == [name |-> name, v |-> v]

\* config::Field with no directive and no argument
FieldOf(type_of) ==
    [type_of |-> type_of, list |-> FALSE, required |-> FALSE, list_type_required |-> FALSE,
     args |-> <<>>, http |-> None, unsafe_operation |-> None, const_field |-> None,
     inline |-> None, modify |-> None]

\* config::Arg
ArgOf(type_of) ==
    [type_of |-> type_of, list |-> FALSE, required |-> FALSE, default_value |-> None]

\* config::Http; GET is the default method
HttpOf(path) ==
    [path |-> path, query |-> <<>>, method |-> "GET", base_url |-> None,
     headers |-> <<>>, group_by |-> <<>>, body |-> None]

\* config::Type
TypeOf(fields) ==
    [fields |-> fields, variants |-> None, scalar |-> FALSE, interface |-> FALSE,
     implements |-> {}]

\* config::Config
ConfigOf(types, upstream) ==
    [types |-> types, unions |-> <<>>,
     schema |-> [query |-> Some("Query"), mutation |-> None],
     server |-> [vars |-> {"v"}],
     upstream |-> upstream]

GoodUrl == <<Lit("http://api")>>
BadUrl == <<Lit("not a url")>>

\* an @http directive that binds on its own: a base URL of its own, no template
PlainHttp == [HttpOf(<<Lit("/x")>>) EXCEPT !.base_url = Some(GoodUrl)]

\* Query { bar(q: Foo): Int @http, foo: Foo @http }, Foo { a: Int @http? }: Foo is an
\* argument type when usage is "in" or "both", a field type when it is "out"
\* or "both"
BlueprintConfig(variants, scalar, interface, usage, fooHttp, upstream) ==
    LET foo == [TypeOf(<<Entry("a", [FieldOf("Int") EXCEPT !.http = fooHttp])>>)
                    EXCEPT !.variants = variants, !.scalar = scalar,
                           !.interface = interface]
        bar == [FieldOf("Int") EXCEPT
                    !.http = Some(PlainHttp),
                    !.args = IF usage \in {"in", "both"}
                             THEN <<Entry("q", ArgOf("Foo"))>> ELSE <<>>]
        fooField == [FieldOf("Foo") EXCEPT !.http = Some(PlainHttp)]
        query == TypeOf(<<Entry("bar", bar)>>
                        \o (IF usage \in {"out", "both"}
                            THEN <<Entry("foo", fooField)>> ELSE <<>>))
    IN  ConfigOf(<<Entry("Foo", foo), Entry("Query", query)>>, upstream)

NoFold ==
    /\ steps = <<>>
    /\ input = 0
    /\ state = 0
    /\ comb = "none"
    /\ out = NoOut

InitBlueprint ==
    /\ NoFold
    /\ config \in
          {BlueprintConfig(variants, scalar, interface, usage, fooHttp, upstream) :
              variants \in {None, Some({}), Some({"A"})},
              scalar \in BOOLEAN, interface \in BOOLEAN,
              usage \in {"none", "in", "out", "both"},
              fooHttp \in {None,
                           Some(HttpOf(<<Lit("/a")>>)),
                           Some([HttpOf(<<Lit("/a")>>) EXCEPT !.group_by = <<"id">>]),
                           Some([HttpOf(<<Lit("/a")>>) EXCEPT !.group_by = <<"id">>,
                                                              !.method = "POST"])},
              upstream \in [base_url : {None, Some(GoodUrl), Some(BadUrl)},
                            batch : {None, Some([default |-> FALSE])}]}
    /\ call = [fn |-> "none"]
    /\ ret = "none"

Enter(c, r) ==
    /\ call.fn = "none"
    /\ call' = c
    /\ ret' = r
    /\ UNCHANGED <<steps, input, state, comb, out, config>>

\* config_blueprint(&config)
CallConfigBlueprint ==
    Enter([fn |-> "config_blueprint"], config_blueprint(config))

\* to_definitions(&config, config.output_types(), config.input_types())
CallToDefinitions ==
    Enter([fn |-> "to_definitions"],
          to_definitions(config, output_types(config), input_types(config)))

NextBlueprint == CallConfigBlueprint \/ CallToDefinitions

SpecBlueprint == InitBlueprint /\ [][NextBlueprint]_vars

\* --- configs for the field pipeline -----------------------------------------

DataNum == [t |-> "num"]
DataInvalid == [t |-> "invalid"]
DataPost == [t |-> "obj", m |-> [id |-> DataNum]]

\* the @http directives put on User.p
ProbeHttpSet ==
    {None} \cup
    {Some([HttpOf(path) EXCEPT !.method = method, !.group_by = group_by,
                               !.base_url = base_url, !.headers = headers]) :
        path \in {<<Lit("/p")>>, <<Lit("/p/"), Expr(<<"value", "name">>)>>},
        method \in {"GET", "POST"},
        group_by \in {<<>>, <<"id">>},
        base_url \in {None, Some(GoodUrl)},
        headers \in {<<>>, <<Entry("bad name", "x")>>}}

\* the fields put at User.p
ProbeFieldSet ==
    {[FieldOf(type_of) EXCEPT !.http = http, !.unsafe_operation = unsafe,
                              !.const_field = const, !.inline = inline,
                              !.modify = modify] :
        type_of \in {"Int", "Post"},
        http \in ProbeHttpSet,
        unsafe \in {None, Some([script |-> "js"])},
        const \in {None, Some([data |-> DataNum]), Some([data |-> DataPost]),
                   Some([data |-> DataInvalid])},
        inline \in {None, Some([path |-> <<"id">>])},
        modify \in {None, Some([name |-> None, omit |-> TRUE]),
                    Some([name |-> Some("q"), omit |-> FALSE]),
                    Some([name |-> Some("name"), omit |-> FALSE])}}

\* Post { id: Int!, title: String }, Query { user: User @http },
\* User { id: Int!, name: String, p: <probe> }
FieldConfig(probe, base_url) ==
    LET post == TypeOf(<<Entry("id", [FieldOf("Int") EXCEPT !.required = TRUE]),
                         Entry("title", FieldOf("String"))>>)
        query == TypeOf(<<Entry("user", [FieldOf("User") EXCEPT !.http = Some(PlainHttp)])>>)
        user == TypeOf(<<Entry("id", [FieldOf("Int") EXCEPT !.required = TRUE]),
                         Entry("name", FieldOf("String")),
                         Entry("p", probe)>>)
    IN  ConfigOf(<<Entry("Post", post), Entry("Query", query), Entry("User", user)>>,
                 [base_url |-> base_url, batch |-> None])

InitField ==
    /\ NoFold
    /\ config \in {FieldConfig(probe, base_url) :
                      probe \in ProbeFieldSet, base_url \in {None, Some(GoodUrl)}}
    /\ call = [fn |-> "none"]
    /\ ret = "none"

TypeNamed(name) == At(config.types, name)

FieldNamed(type, name) == At(TypeNamed(type).fields, name)

\* to_field(type_of, config, name, field) on a field of User
CallToField ==
    \E name \in Names(TypeNamed("User").fields) :
        Enter([fn |-> "to_field", type |-> "User", name |-> name],
              to_field(TypeNamed("User"), config, name, FieldNamed("User", name)))

\* to_fields(type_of, config) on a configured type
CallToFields ==
    \E type \in Names(config.types) :
        Enter([fn |-> "to_fields", type |-> type], to_fields(TypeNamed(type), config))

\* update_http(field, field_definition, type_of, config), as to_field calls it
CallUpdateHttp ==
    \E name \in Names(TypeNamed("User").fields) :
        LET field == FieldNamed("User", name)
        IN  Enter([fn |-> "update_http", type |-> "User", name |-> name],
                  update_http(field, NewFieldDefinition(name, field, to_args(field).val),
                              TypeNamed("User"), config))

\* to_json_schema(type_of, required, list, config)
CallToJsonSchema ==
    \E type_of \in Names(config.types) \cup {"Int"}, required \in BOOLEAN, list \in BOOLEAN :
        Enter([fn |-> "to_json_schema", type_of |-> type_of, required |-> required,
               list |-> list],
              to_json_schema(type_of, required, list, config))

NextField == CallToField \/ CallToFields \/ CallUpdateHttp \/ CallToJsonSchema

SpecField == InitField /\ [][NextField]_vars

\* --- configs for the schema inference ---------------------------------------

\* Node { id: Int!, next: <next> }, Query { node: Node @http }: the type graph
\* has a cycle when next is of type Node
SchemaConfig(next) ==
    LET node == TypeOf(<<Entry("id", [FieldOf("Int") EXCEPT !.required = TRUE]),
                         Entry("next", next)>>)
        query == TypeOf(<<Entry("node", [FieldOf("Node") EXCEPT !.http = Some(PlainHttp)])>>)
    IN  ConfigOf(<<Entry("Node", node), Entry("Query", query)>>,
                 [base_url |-> None, batch |-> None])

InitSchema ==
    /\ NoFold
    /\ config \in {SchemaConfig([FieldOf(type_of) EXCEPT !.required = required,
                                      !.list = list, !.http = http, !.const_field = const]) :
                      type_of \in {"Int", "Node"}, required \in BOOLEAN, list \in BOOLEAN,
                      http \in {None, Some(PlainHttp)},
                      const \in {None, Some([data |-> DataNum])}}
    /\ call = [fn |-> "none"]
    /\ ret = "none"

NextSchema == CallToJsonSchema

SpecSchema == InitSchema /\ [][NextSchema]_vars

\* --- configs for the template validator -------------------------------------

\* the sequences over S of length k
SeqsOf(S, k) == [1..k -> S]

\* the parts of a template expression: the four namespaces, "env" which is
\* none of them, and the names of fields, arguments and variables
TemplateParts ==
    {"value", "args", "vars", "headers", "env",
     "id", "name", "post", "tags", "a", "b", "c", "l", "v", "zz"}

\* User { id: Int!, name: String, post: Post!, tags: [String]!,
\*        f(a: Int!, b: Int, c: Int = 1, l: [Int]!): Int @http }
MustacheConfig(server_vars) ==
    LET post == TypeOf(<<Entry("id", [FieldOf("Int") EXCEPT !.required = TRUE])>>)
        f == [FieldOf("Int") EXCEPT
                !.http = Some(PlainHttp),
                !.args = <<Entry("a", [ArgOf("Int") EXCEPT !.required = TRUE]),
                           Entry("b", ArgOf("Int")),
                           Entry("c", [ArgOf("Int") EXCEPT !.default_value = Some(DataNum)]),
                           Entry("l", [ArgOf("Int") EXCEPT !.list = TRUE, !.required = TRUE])>>]
        user == TypeOf(<<Entry("f", f),
                         Entry("id", [FieldOf("Int") EXCEPT !.required = TRUE]),
                         Entry("name", FieldOf("String")),
                         Entry("post", [FieldOf("Post") EXCEPT !.required = TRUE]),
                         Entry("tags", [FieldOf("String") EXCEPT !.list = TRUE,
                                                                 !.required = TRUE])>>)
        query == TypeOf(<<Entry("user", [FieldOf("User") EXCEPT !.http = Some(PlainHttp)])>>)
    IN  [ConfigOf(<<Entry("Post", post), Entry("Query", query), Entry("User", user)>>,
                  [base_url |-> Some(GoodUrl), batch |-> None])
            EXCEPT !.server.vars = server_vars]

InitMustache ==
    /\ NoFold
    /\ config \in {MustacheConfig(server_vars) : server_vars \in {{}, {"v"}}}
    /\ call = [fn |-> "none"]
    /\ ret = "none"

\* the arguments of User.f, as to_field hands them on
ArgsOfF == to_args(FieldNamed("User", "f")).val

\* validate_mustache_parts(type_of, config, is_query, parts, args)
CallValidateMustacheParts ==
    /\ call.fn = "none"
    /\ \E k \in 0..MaxParts, is_query \in BOOLEAN :
      \E parts \in SeqsOf(TemplateParts, k) :
        Enter([fn |-> "validate_mustache_parts", type |-> "User", is_query |-> is_query,
               parts |-> parts],
              validate_mustache_parts(TypeNamed("User"), config, is_query, parts, ArgsOfF))

\* the expressions put in the path and in the query of User.f
TemplateExprs ==
    {<<"value", "id">>, <<"value", "name">>, <<"args", "a">>, <<"args", "b">>,
     <<"vars", "v">>, <<"headers", "h">>, <<"env", "x">>}

\* validate_field(type_of, config, field) on User.f bound to an endpoint
CallValidateField ==
    /\ call.fn = "none"
    /\ \E path \in SeqsOf(TemplateExprs, 0) \cup SeqsOf(TemplateExprs, 1),
       query \in SeqsOf(TemplateExprs, 0) \cup SeqsOf(TemplateExprs, 1) :
        LET req_template ==
                [root_url |-> GoodUrl \o <<Lit("/f/")>> \o [i \in 1..Len(path) |-> Expr(path[i])],
                 method |-> "GET",
                 query |-> [i \in 1..Len(query) |-> Entry("k", <<Expr(query[i])>>)],
                 body |-> None, headers |-> <<>>]
            field == [NewFieldDefinition("f", FieldNamed("User", "f"), ArgsOfF)
                        EXCEPT !.resolver = Some(Endpoint(req_template, None, None))]
        IN  Enter([fn |-> "validate_field", type |-> "User", path |-> path, query |-> query],
                  validate_field(TypeNamed("User"), config, field))

NextMustache == CallValidateMustacheParts \/ CallValidateField

SpecMustache == InitMustache /\ [][NextMustache]_vars

\* --- configs for the inline path resolver -------------------------------------

PathSegments == {"address", "city", "name", "posts", "0", "zz"}

\* the directive put on User.address: none, or one of the three resolvers
WithResolver(field, kind) ==
    CASE kind = "http" -> [field EXCEPT !.http = Some(PlainHttp)]
      [] kind = "const" -> [field EXCEPT !.const_field = Some([data |-> DataNum])]
      [] kind = "unsafe" -> [field EXCEPT !.unsafe_operation = Some([script |-> "js"])]
      [] OTHER -> field

\* Address { city: String! }, Post { id: Int!, user: User @inline(path) },
\* Query { posts: [Post] @http },
\* User { address: Address, name: String, posts: [Post] @http }
InlineConfig(inline, userRequired, addressRequired, addressList, addressKind) ==
    LET address == TypeOf(<<Entry("city", [FieldOf("String") EXCEPT !.required = TRUE])>>)
        post == TypeOf(<<Entry("id", [FieldOf("Int") EXCEPT !.required = TRUE]),
                         Entry("user", [FieldOf("User") EXCEPT !.required = userRequired,
                                                               !.inline = inline])>>)
        posts == [FieldOf("Post") EXCEPT !.list = TRUE, !.http = Some(PlainHttp)]
        query == TypeOf(<<Entry("posts", posts)>>)
        user == TypeOf(<<Entry("address",
                               WithResolver([FieldOf("Address") EXCEPT
                                                !.required = addressRequired,
                                                !.list = addressList], addressKind)),
                         Entry("name", FieldOf("String")),
                         Entry("posts", posts)>>)
    IN  ConfigOf(<<Entry("Address", address), Entry("Post", post), Entry("Query", query),
                   Entry("User", user)>>,
                 [base_url |-> Some(GoodUrl), batch |-> None])

InitInline ==
    /\ NoFold
    /\ \E userRequired \in BOOLEAN, addressRequired \in BOOLEAN, addressList \in BOOLEAN,
          addressKind \in {"none", "http", "const", "unsafe"} :
          \/ config = InlineConfig(None, userRequired, addressRequired, addressList,
                                   addressKind)
          \/ \E k \in 0..MaxPathLen :
                \E p \in SeqsOf(PathSegments, k) :
                    config = InlineConfig(Some([path |-> p]), userRequired, addressRequired,
                                          addressList, addressKind)
    /\ call = [fn |-> "none"]
    /\ ret = "none"

\* update_inline_field(type_info, field, base_field, config) on Post.user
CallUpdateInlineField ==
    LET field == FieldNamed("Post", "user")
    IN  Enter([fn |-> "update_inline_field", type |-> "Post", name |-> "user"],
              update_inline_field(TypeNamed("Post"), field,
                                  NewFieldDefinition("user", field, <<>>), config))

\* process_path(&inlined_path, field, type_info, false, config, ..), as
\* update_inline_field calls it
CallProcessPath ==
    LET field == FieldNamed("Post", "user")
    IN  /\ field.inline.some
        /\ Enter([fn |-> "process_path", type |-> "Post", name |-> "user"],
                 process_path(field.inline.v.path, field, TypeNamed("Post"), FALSE, config))

NextInline == CallUpdateInlineField \/ CallProcessPath

SpecInline == InitInline /\ [][NextInline]_vars

-----------------------------------------------------------------------------
\* Properties of try_fold.rs, checked under SpecFold.

\* the leaf closures on their own, as the tests call them
R1(st) == Closure(steps[1], input, st)
R2(st) == Closure(steps[2], input, st)
R3(st) == Closure(steps[3], input, st)

\* the state a step leaves to its successors: its value when it succeeds, the
\* state it was given when it fails
After(r, st) == IF r.ok THEN r.val ELSE st

\* what a.and(b) has to return, given a's outcome ra on (input, state), b's
\* outcome rb0 on (input, state) and b's outcome rbNext on (input, ra.val)
AndLaw(result, ra, rb0, rbNext) ==
    /\ ra.ok => result = rbNext
    /\ (~ra.ok /\ rb0.ok) => result = Valid_errs(ra.errs)
    /\ (~ra.ok /\ ~rb0.ok) => result = Valid_errs(ra.errs \o rb0.errs)

T12 == TryFold_and(T(1), T(2))
T23 == TryFold_and(T(2), T(3))

\* C1: a.and(b).try_fold(i, s) is b's outcome on (i, s') when a succeeds with
\* s'; a failure with exactly a's errors when a fails and b succeeds on the
\* original (i, s); a's errors followed by b's errors on the original state
\* when both fail.  Checked for leaf a, b (t1.and(t2)) and for a compound a
\* (t1.and(t2)).and(t3) and a compound b, t1.and(t2.and(t3)).
C1_AndLaw ==
    /\ comb = "and" =>
          AndLaw(out.v, R1(state), R2(state), R2(R1(state).val))
    /\ comb = "left" =>
          LET ra == try_fold(T12, input, state).v
          IN  AndLaw(out.v, ra, R3(state), R3(ra.val))
    /\ comb = "right" =>
          LET ra == R1(state)
          IN  AndLaw(out.v, ra, try_fold(T23, input, state).v,
                     try_fold(T23, input, ra.val).v)

\* both t1 and t2 fail and the result carries the two errors
C1_Witness ==
    /\ comb = "and"
    /\ ~R1(state).ok /\ ~R2(state).ok
    /\ Len(out.v.errs) = 2

RECURSIVE Threaded(_, _, _)
\* the steps from the i-th on, run one after the other: a success moves the
\* state on, a failure adds its errors and leaves the state alone
Threaded(i, st, errs) ==
    IF i > Len(steps)
    THEN IF errs = <<>> THEN Valid_succeed(st) ELSE Valid_errs(errs)
    ELSE LET r == Closure(steps[i], input, st)
         IN  Threaded(i + 1, After(r, st), errs \o r.errs)

\* C2: from_iter([s1, s2, s3]) on (input, s0) succeeds with the sequentially
\* threaded state when all three succeed; otherwise it fails with the errors
\* of exactly the failing steps, in list order, each computed from the state of
\* the last successful step before it (s0 if none).
C2_FromIterThreads ==
    comb = "from_iter" => out.v = Threaded(1, state, <<>>)

\* test_try_all_1_3_fail: fail(a+b), succeed(a*b), fail(a*b*100) on (2, 3)
C2_Witness ==
    /\ comb = "from_iter"
    /\ steps[1].kind = "fail" /\ steps[2].kind = "succeed" /\ steps[3].kind = "fail"
    /\ input = 2 /\ state = 3
    /\ out.v = Valid_errs(<<Cause(5), Cause(1200)>>)

Count(x, seq) == Cardinality({i \in 1..Len(seq) : seq[i] = x})

\* the same errors, each as often, in whatever order
SameContents(s, t) ==
    /\ Len(s) = Len(t)
    /\ \A i \in 1..Len(s) : Count(s[i], s) = Count(s[i], t)

RightGrouped == try_fold(TryFold_and(T(1), T23), input, state).v

\* C10 as stated: the left-grouped and the right-grouped combinator fail on the
\* same inputs, with error lists of identical contents, order aside.
C10_SameContents ==
    comb = "left" =>
        /\ out.v.ok <=> RightGrouped.ok
        /\ ~out.v.ok => SameContents(out.v.errs, RightGrouped.errs)

\* the errors of s1 and s2, which both groupings report alike
E12 == R1(state).errs \o R2(After(R1(state), state)).errs

\* the state after the last successful step among s1, s2
S12 == After(R2(After(R1(state), state)), After(R1(state), state))

\* the outcome of a grouping whose third step is run on st3
Grouped(st3) ==
    IF E12 = <<>> THEN R3(S12) ELSE Valid_errs(E12 \o R3(st3).errs)

\* C10, amended: both groupings fail on the same inputs and report the errors
\* of s1 and s2 alike and first; the error of s3 is computed from the initial
\* state in the left grouping whenever s1 or s2 failed, and from the state of
\* the last successful step in the right grouping.
C10_GroupingLaw ==
    /\ comb = "left" => (out.v = Grouped(state) /\ (out.v.ok <=> RightGrouped.ok))
    /\ comb = "right" => out.v = Grouped(S12)

\* test_1_3_failure_left against test_1_3_failure_right
C10_Witness ==
    /\ comb = "left"
    /\ out.v = Valid_errs(<<Cause(5), Cause(600)>>)
    /\ RightGrouped = Valid_errs(<<Cause(5), Cause(1200)>>)

RECURSIVE Numeral(_, _)
\* digits is the decimal numeral of n: its last digit is n mod 10, the digits
\* before it are the numeral of n div 10, and the first digit is not zero
Numeral(digits, n) ==
    IF n < 10 THEN digits = <<n>>
    ELSE /\ Len(digits) > 1
         /\ digits[Len(digits)] = n % 10
         /\ Numeral(SubSeq(digits, 1, Len(digits) - 1), n \div 10)

\* what f returns on (input, down(s1)), f being the combinator transformed
Untransformed ==
    try_fold(call.of, input, IF call.down = "parse" THEN state ELSE state \div 2).v

\* C11: f.transform(up, down).try_fold(i, s1) succeeds with up(v) exactly
\* when f.try_fold(i, down(s1)) succeeds with v, and fails with exactly f's
\* errors when f fails on (i, down(s1)).  s1 is the numeral of `state`, with
\* or without a leading zero, so down(s1) is state or its half; up(v) is the
\* numeral of v or of v + 1.
C11_TransformLaw ==
    comb = "transform" =>
        /\ out.v.ok <=> Untransformed.ok
        /\ out.v.ok =>
              Numeral(out.v.val,
                      Untransformed.val + (IF call.up = "to_string" THEN 0 ELSE 1))
        /\ ~out.v.ok => out.v = Untransformed

\* test_transform: |a, b| a + b under to_string / parse on (2, "3") gives "5"
C11_Witness ==
    /\ comb = "transform"
    /\ call.of = T(1) /\ steps[1] = [kind |-> "succeed", op |-> "add"]
    /\ call.up = "to_string" /\ call.down = "parse"
    /\ input = 2 /\ call.s1 = <<3>>
    /\ out.v = Valid_succeed(<<5>>)


\* the calls of the closure of the step id made by the fold, in order
CallsOf(id) ==
    LET idx == {i \in 1..Len(out.log) : out.log[i].id = id}
    IN  AtIndices(out.log, idx)

\* C16: one t1.and(t2).try_fold(input, state) invokes t2 exactly once: on
\* (input, state') when t1 succeeds with state', on the original (input, state)
\* when t1 fails; one try_fold of from_iter over three steps invokes each step
\* exactly once.
C16_InvokedOnce ==
    /\ comb = "and" =>
          CallsOf(2) = <<Call(2, After(R1(state), state))>>
    /\ comb = "from_iter" =>
          \A id \in 1..Len(steps) : Len(CallsOf(id)) = 1

-----------------------------------------------------------------------------
\* Properties of to_definitions and config_blueprint, checked under SpecBlueprint.

\* the configured types used in input and in output
DblUsed == Names(config.types) \cap input_types(config) \cap output_types(config)

Causes(r) == {r.errs[i] : i \in 1..Len(r.errs)}

InTrace(name, cause) == \E i \in 1..Len(cause.trace) : cause.trace[i] = name

\* C3 as stated: every type name in both the input-type set and the
\* output-type set makes config_blueprint fail with an error whose trace names
\* the type, whatever other attributes (enum variants, scalar flag, interface
\* flag) the type has.
C3_DblUsageAlwaysRejected ==
    call.fn = "config_blueprint" =>
        \A name \in DblUsed :
            /\ ~ret.ok
            /\ \E cause \in Causes(ret) : InTrace(name, cause)

\* C3, amended: the type is rejected unless it carries enum variants or the
\* scalar flag, which to_definitions looks at first.
C3_DblUsageRejected ==
    call.fn \in {"config_blueprint", "to_definitions"} =>
        \A name \in DblUsed :
            (~At(config.types, name).variants.some /\ ~At(config.types, name).scalar) =>
                /\ ~ret.ok
                /\ \E cause \in Causes(ret) :
                      /\ cause.message = <<"type is used in input and output">>
                      /\ cause.trace = <<name>>

\* Foo is an argument type and a field type, neither enum nor scalar, and the
\* compilation has failed
C3_Witness ==
    /\ call.fn = "config_blueprint"
    /\ "Foo" \in DblUsed
    /\ ~At(config.types, "Foo").variants.some /\ ~At(config.types, "Foo").scalar
    /\ At(config.types, "Foo").interface
    /\ ~ret.ok

\* the definitions of a blueprint whose fields carry resolvers
ResolverKinds == {"ObjectTypeDefinition", "InterfaceTypeDefinition"}

\* some field of a definition of one of the kinds has, as its resolver, an
\* endpoint with a group-by
HasGroupByField(blueprint, kinds) ==
    \E d \in 1..Len(blueprint.definitions) :
        /\ blueprint.definitions[d].k \in kinds
        /\ \E f \in 1..Len(blueprint.definitions[d].fields) :
              IsGroupByEndpoint(blueprint.definitions[d].fields[f].resolver)

\* the batch setting the claim expects, given whether a group-by field exists
BatchLaw(blueprint, has) ==
    IF has
    THEN /\ blueprint.upstream.batch.some
         /\ blueprint.upstream.batch =
                (IF config.upstream.batch.some THEN config.upstream.batch
                 ELSE Some(BatchDefault))
    ELSE blueprint.upstream.batch = config.upstream.batch

\* C7 as stated: if at least one field of the produced blueprint is bound to
\* an endpoint with a non-empty group-by, the upstream batch setting is present
\* (the default, or the configured one); otherwise it equals the configured one.
C7_BatchForAnyField ==
    (call.fn = "config_blueprint" /\ ret.ok) =>
        BatchLaw(ret.val, HasGroupByField(ret.val, ResolverKinds))

\* C7, amended: the fields that count are those of the object type
\* definitions, whose resolver is itself an endpoint with a group-by.
C7_BatchForObjectFields ==
    (call.fn = "config_blueprint" /\ ret.ok) =>
        BatchLaw(ret.val, HasGroupByField(ret.val, {"ObjectTypeDefinition"}))

\* no batch configured, a group-by field on an object type: the default is set
C7_Witness ==
    /\ call.fn = "config_blueprint"
    /\ ret.ok
    /\ ~config.upstream.batch.some
    /\ HasGroupByField(ret.val, {"ObjectTypeDefinition"})
    /\ ret.val.upstream.batch = Some(BatchDefault)

\* C12: every error that arises from translating a configured type, whichever
\* branch of to_definitions rejects the type, carries a non-empty trace whose
\* first element is the name of that type.
C12_ErrorsTraced ==
    (call.fn = "to_definitions" /\ ~ret.ok) =>
        \A cause \in Causes(ret) :
            /\ cause.trace # <<>>
            /\ cause.trace[1] \in Names(config.types)

-----------------------------------------------------------------------------
\* Properties of the field pipeline, checked under SpecField.

Range(seq) == {seq[i] : i \in 1..Len(seq)}

\* the error to_field gives for a field with an HTTP and a const directive
IsMultipleResolvers(cause) ==
    /\ cause.message[1] = "Multiple resolvers detected"
    /\ {"@http", "@const"} \subseteq Range(cause.message[2])

HasHttpAndConst(field) == field.http.some /\ field.const_field.some

\* C4: a field with both an HTTP and a const directive fails with the
\* 'Multiple resolvers detected' error listing both identifiers, whether or not
\* either directive is valid on its own, and before any binding step runs: the
\* error is the only one to_field gives, and under to_fields no error of the
\* field comes from a directive (a trace below the field's name).
C4_MultipleResolvers ==
    /\ (call.fn = "to_field" /\ HasHttpAndConst(FieldNamed(call.type, call.name))) =>
          /\ ~ret.ok
          /\ Len(ret.errs) = 1
          /\ IsMultipleResolvers(ret.errs[1])
          /\ ret.errs[1].trace = <<>>
    /\ call.fn = "to_fields" =>
          \A name \in Names(TypeNamed(call.type).fields) :
              HasHttpAndConst(FieldNamed(call.type, name)) =>
                  /\ ~ret.ok
                  /\ \E cause \in Causes(ret) :
                        IsMultipleResolvers(cause) /\ cause.trace = <<name>>
                  /\ \A cause \in Causes(ret) :
                        cause.trace[1] = name => Len(cause.trace) = 1

\* the HTTP directive has no base URL to use and the literal is invalid JSON,
\* and the field is still rejected for its two resolvers
C4_Witness ==
    /\ call.fn = "to_field"
    /\ HasHttpAndConst(FieldNamed(call.type, call.name))
    /\ ~FieldNamed(call.type, call.name).http.v.base_url.some
    /\ ~config.upstream.base_url.some
    /\ FieldNamed(call.type, call.name).const_field.v.data = DataInvalid
    /\ ~ret.ok
    /\ IsMultipleResolvers(ret.errs[1])

GroupByError == [message |-> <<"GroupBy is only supported for GET requests">>,
                 trace |-> <<>>]

\* C6: with a resolvable base URL, a non-empty group_by with a method other
\* than GET makes update_http fail with the GroupBy error; an empty group_by
\* never gives that error; and on success the resolver is an endpoint that
\* carries the group-by exactly when group_by is non-empty (the method is GET
\* then), and a plain endpoint otherwise.
C6_GroupByRule ==
    (/\ call.fn = "update_http"
     /\ FieldNamed(call.type, call.name).http.some
     /\ (FieldNamed(call.type, call.name).http.v.base_url.some
            \/ config.upstream.base_url.some)) =>
        LET http == FieldNamed(call.type, call.name).http.v
        IN  /\ (http.group_by # <<>> /\ http.method # "GET") =>
                    (~ret.ok /\ GroupByError \in Causes(ret))
            /\ http.group_by = <<>> => GroupByError \notin Causes(ret)
            /\ ret.ok =>
                    /\ ret.val.resolver.some
                    /\ ret.val.resolver.v.k = "Endpoint"
                    /\ ret.val.resolver.v.group_by =
                            (IF http.group_by # <<>> THEN Some(http.group_by) ELSE None)
                    /\ (http.group_by # <<>> => http.method = "GET")

\* a GET binding with a group-by, bound to a group-by endpoint
C6_Witness ==
    /\ call.fn = "update_http"
    /\ FieldNamed(call.type, call.name).http.some
    /\ FieldNamed(call.type, call.name).http.v.group_by = <<"id">>
    /\ ret.ok
    /\ ret.val.resolver.v.group_by = Some(<<"id">>)

RECURSIVE Unwrapped(_)
\* the schema below the Opt and Arr wrappers
Unwrapped(schema) ==
    IF schema.k \in {"Opt", "Arr"} THEN Unwrapped(schema.of) ELSE schema

\* C9: the object schema of a configured type has as members exactly the
\* fields that carry no resolver directive (HTTP, unsafe script or const).
C9_SchemaMembers ==
    (call.fn = "to_json_schema" /\ Has(config.types, call.type_of)) =>
        /\ Unwrapped(ret).k = "Obj"
        /\ DOMAIN Unwrapped(ret).fields =
              {name \in Names(TypeNamed(call.type_of).fields) :
                  ~has_resolver(FieldNamed(call.type_of, name))}

-----------------------------------------------------------------------------
\* Properties of the template validator, checked under SpecMustache.

\* what the validator is to accept, read off the configured type and the
\* configured arguments of the field
Accepted(type_, args, server_vars, is_query, parts) ==
    /\ Len(parts) >= 2
    /\ \/ /\ parts[1] = "value"
          /\ Has(type_.fields, parts[2])
          /\ is_scalar(At(type_.fields, parts[2]).type_of)
          /\ (is_query \/ At(type_.fields, parts[2]).required)
       \/ /\ parts[1] = "args"
          /\ Has(args, parts[2])
          /\ ~At(args, parts[2]).list
          /\ \/ is_query
             \/ At(args, parts[2]).default_value.some
             \/ At(args, parts[2]).required
       \/ /\ parts[1] = "vars"
          /\ parts[2] \in server_vars
       \/ parts[1] = "headers"

AcceptedOnF(is_query, parts) ==
    Accepted(TypeNamed("User"), FieldNamed("User", "f").args, config.server.vars,
             is_query, parts)

\* C8: validate_mustache_parts accepts a segment list exactly when it has at
\* least two segments and is value.<scalar field, non-nullable unless in query
\* position>, args.<declared non-list argument, with a default or non-nullable
\* unless in query position>, vars.<configured variable> or headers.<any>;
\* validate_field checks path segments as a non-query position and
\* query-parameter segments as a query position.
C8_MustacheAccepts ==
    /\ call.fn = "validate_mustache_parts" =>
          (ret.ok <=> AcceptedOnF(call.is_query, call.parts))
    /\ call.fn = "validate_field" =>
          (ret.ok <=>
              /\ \A i \in 1..Len(call.path) : AcceptedOnF(FALSE, call.path[i])
              /\ \A i \in 1..Len(call.query) : AcceptedOnF(TRUE, call.query[i]))

\* a nullable value is accepted in a query parameter
C8_Witness ==
    /\ call.fn = "validate_field"
    /\ call.path = <<<<"value", "id">>>>
    /\ call.query = <<<<"value", "name">>>>
    /\ ret.ok

-----------------------------------------------------------------------------
\* Properties of the inline path resolver, checked under SpecInline.

\* the types process_path starts from: the enclosing type and the configured
\* type of the inlined field
StartTypes(type, name) ==
    {type} \cup (IF Has(config.types, FieldNamed(type, name).type_of)
                 THEN {FieldNamed(type, name).type_of} ELSE {})

\* the non-final segments of the path that name a field with a resolver of
\* its own, with the type that field is in
CrossedResolvers(type, name) ==
    LET path == FieldNamed(type, name).inline.v.path
    IN  {<<i, t>> \in (1..(Len(path) - 1)) \X StartTypes(type, name) :
            /\ Has(TypeNamed(t).fields, path[i])
            /\ has_resolver(At(TypeNamed(t).fields, path[i]))}

\* the error names the field and the kind of its directive
IdentifiesResolver(cause, field_name, field) ==
    /\ cause.message[1] = "Inline can't be done because of resolver at"
    /\ cause.message[2] = ResolverKind(field)
    /\ cause.message[4] = field_name

\* C5: an inline path in which some non-final segment names a field that
\* carries its own resolver directive never resolves successfully: resolving
\* it fails, with an error that identifies that field and the kind of its
\* directive (looked for when the field is named by the first segment, so
\* that no other segment can have failed before it).
C5_PathCrossesResolver ==
    (/\ call.fn \in {"process_path", "update_inline_field"}
     /\ FieldNamed(call.type, call.name).inline.some) =>
        \A c \in CrossedResolvers(call.type, call.name) :
            LET field_name == FieldNamed(call.type, call.name).inline.v.path[c[1]]
            IN  /\ ~ret.ok
                /\ c[1] = 1 =>
                      \E cause \in Causes(ret) :
                          IdentifiesResolver(cause, field_name,
                                             At(TypeNamed(c[2]).fields, field_name))

RECURSIVE Walk(_, _)
\* the path followed from a type, one field for each segment: whether every
\* segment names a field of the type reached, and whether all of them are
\* required
Walk(type, path) ==
    IF path = <<>> THEN [ok |-> TRUE, required |-> TRUE]
    ELSE IF ~Has(config.types, type) \/ ~Has(TypeNamed(type).fields, Head(path))
    THEN [ok |-> FALSE, required |-> FALSE]
    ELSE LET next == Walk(FieldNamed(type, Head(path)).type_of, Tail(path))
         IN  [ok |-> next.ok,
              required |-> FieldNamed(type, Head(path)).required /\ next.required]

\* C13: for an inline path without numeric segments that resolves, the type
\* update_inline_field assigns is non-nullable exactly when every field
\* traversed by the path is required.  Stated for the paths that name a field
\* at every segment, starting in the configured type of the inlined field:
\* non-nullable when these fields and the inlined field are all required,
\* nullable when one of the fields named by the path is not.
C13_NullabilityIsAnd ==
    (/\ call.fn = "update_inline_field"
     /\ FieldNamed(call.type, call.name).inline.some
     /\ ret.ok) =>
        LET field == FieldNamed(call.type, call.name)
            path == field.inline.v.path
            walk == Walk(field.type_of, path)
        IN  (/\ path # <<>>
             /\ \A i \in 1..Len(path) : path[i] \notin UsizeSegments \cup DigitSegments
             /\ walk.ok) =>
                /\ (walk.required /\ field.required) => ret.val.of_type.non_null
                /\ ~walk.required => ~ret.val.of_type.non_null

\* C14: an inline path with a non-numeric segment that names no field of the
\* type traversed at that point never resolves: the binding fails with the
\* 'provided path doesn't exist' error, whatever the later segments are.
\* Stated for the first segment, where the type traversed is the enclosing
\* type or the configured type of the inlined field.
C14_UnknownSegmentFails ==
    (/\ call.fn = "update_inline_field"
     /\ FieldNamed(call.type, call.name).inline.some) =>
        LET field == FieldNamed(call.type, call.name)
            path == field.inline.v.path
        IN  (/\ path # <<>>
             /\ path[1] \notin UsizeSegments \cup DigitSegments
             /\ ~Has(TypeNamed(call.type).fields, path[1])
             /\ ~Has(TypeNamed(field.type_of).fields, path[1])) =>
                /\ ~ret.ok
                /\ \E cause \in Causes(ret) :
                       cause.message = <<"Inline can't be done because provided path doesn't exist">>

RECURSIVE Cut(_)
\* the recursion that builds the schema was cut somewhere
Cut(schema) ==
    CASE schema.k = "Overflow" -> TRUE
      [] schema.k \in {"Opt", "Arr"} -> Cut(schema.of)
      [] schema.k = "Obj" -> \E n \in DOMAIN schema.fields : Cut(schema.fields[n])
      [] OTHER -> FALSE

\* C15: the compilation terminates for every finite config, also when the
\* type graph has a cycle: to_json_schema never recurses deeper than MaxDepth,
\* which is more than the number of configured types.
C15_SchemaRecursionBounded ==
    call.fn = "to_json_schema" => ~Cut(ret)

\* C17: the field definitions to_fields produces for a type have pairwise
\* distinct names: the modify step never yields two fields of the same name,
\* also when the new name of a field is the name of another field of the type.
C17_FieldNamesDistinct ==
    (call.fn = "to_fields" /\ ret.ok) =>
        \A i, j \in 1..Len(ret.val) :
            i # j => ret.val[i].name # ret.val[j].name

=============================================================================
